---- MODULE Spec2Model ----
(***************************************************************************)
(* The publish loop of proto-work-manager.py: main() and get_jobs().        *)
(* One action per statement of the loop that calls out of the process       *)
(* (pika, the file system, sleep).  pika is an external library: each call  *)
(* into it returns or raises one of the exception classes named below.      *)
(* KeyboardInterrupt can be raised inside any statement of the loop.        *)
(***************************************************************************)
EXTENDS Integers, Sequences, FiniteSets, TLC

\* ------------------------------------------------------------------ bounds
MaxCycles == 3      \* iterations of while(True) explored
MaxJobs == 2        \* records in the job file
MaxJobId == 2       \* distinct job records

\* --------------------------------------------------------------- constants
\* sleep(6): a tenth of the delay.
SleepSeconds_short == 60 \div 10

\* Line 228: the argument of sleep.
SleepSeconds == 60

Unbound == 0        \* a local name that has not been assigned yet
JobIds == 1 .. MaxJobId
ConnIds == 1 .. MaxCycles

VARIABLES
    pc,             \* position of main()
    exc,            \* exception propagating through the finally blocks
    env,            \* which environment variables are set
    job_filename,   \* args.job_filename
    fs,             \* the job file on the file system
    connection,     \* local of main(): Unbound or the connection object
    channel,        \* local of main(): Unbound or the channel object
    jobs,           \* local of main(): the batch returned by get_jobs
    idx,            \* position of the for loop in jobs
    openConns,      \* connection objects that are open
    openChans,      \* channel objects that are open
    queue,          \* bodies the broker routed to the work queue
    log,            \* lines written by logger.info and print
    trace,          \* calls made on the broker, in order
    cycle,          \* iterations of while(True) started
    clock,          \* time spent in sleep
    faults,         \* every non-normal outcome met so far
    cancelledAt,    \* where the first KeyboardInterrupt was raised
    triggering,     \* the exception the body of the current cycle raised
    file0           \* the job file as it was when the process started

vars == <<pc, exc, env, job_filename, fs, connection, channel, jobs, idx,
          openConns, openChans, queue, log, trace, cycle, clock, faults,
          cancelledAt, triggering, file0>>

\* ------------------------------------------------------------- job records
Job(n) == [id |-> n]

RECURSIVE SeqsUpTo(_, _)
SeqsUpTo(S, n) ==
    IF n = 0 THEN {<<>>}
    ELSE LET shorter == SeqsUpTo(S, n - 1)
         IN shorter \cup {Append(s, x) : s \in {t \in shorter : Len(t) = n - 1}, x \in S}

Batches == SeqsUpTo({Job(n) : n \in JobIds}, MaxJobs)

\* The content of the job file: text json.loads rejects, a document without
\* the 'jobs' key, or a document whose 'jobs' key holds the records.
FileContents ==
    {[kind |-> "garbage"]}
    \cup {[kind |-> "json", doc |-> [other |-> <<>>]]}
    \cup {[kind |-> "json", doc |-> [jobs |-> b]] : b \in Batches}

NoFile == [exists |-> FALSE]
FileSystems == {NoFile} \cup {[exists |-> TRUE, data |-> c] : c \in FileContents}

\* json.dumps with separators=(',', ':'): no space after the colon.
dumps_compact(job) == "{\"id\":" \o ToString(job.id) \o "}"

\* json.dumps(job, ensure_ascii=False) of a record {"id": n}
dumps(job) == "{\"id\": " \o ToString(job.id) \o "}"

\* ---------------------------------------------------------------- get_jobs
\* jobs.insert(0, job) instead of jobs.append(job): the batch reversed.
RECURSIVE AppendAll_reversed(_, _)
AppendAll_reversed(acc, rest) ==
    IF rest = <<>> THEN acc
    ELSE AppendAll_reversed(<<Head(rest)>> \o acc, Tail(rest))

\* for job in job_dict['jobs']: jobs.append(job)
RECURSIVE AppendAll(_, _)
AppendAll(acc, rest) ==
    IF rest = <<>> THEN acc
    ELSE AppendAll(Append(acc, Head(rest)), Tail(rest))

\* get_jobs with os.unlink moved before json.loads: the file is gone when
\* the parse fails.
get_jobs_unlink_first(filename, f) ==
    IF filename # "None" /\ f.exists
    THEN IF f.data.kind # "json"
         THEN [raised |-> "ValueError", jobs |-> <<>>, fs |-> NoFile]
         ELSE IF "jobs" \notin DOMAIN f.data.doc
         THEN [raised |-> "KeyError", jobs |-> <<>>, fs |-> NoFile]
         ELSE [raised |-> "none", jobs |-> f.data.doc["jobs"], fs |-> NoFile]
    ELSE [raised |-> "none", jobs |-> <<>>, fs |-> f]

\* get_jobs without os.unlink: the file stays.
get_jobs_keep_file(filename, f) ==
    IF filename # "None" /\ f.exists
    THEN IF f.data.kind # "json"
         THEN [raised |-> "ValueError", jobs |-> <<>>, fs |-> f]
         ELSE IF "jobs" \notin DOMAIN f.data.doc
         THEN [raised |-> "KeyError", jobs |-> <<>>, fs |-> f]
         ELSE [raised |-> "none", jobs |-> f.data.doc["jobs"], fs |-> f]
    ELSE [raised |-> "none", jobs |-> <<>>, fs |-> f]

\* get_jobs without the 'job_filename and' test of line 141: a file that
\* exists is read and unlinked whether or not a path was given.
get_jobs_any_path(filename, f) ==
    IF f.exists
    THEN IF f.data.kind # "json"
         THEN [raised |-> "ValueError", jobs |-> <<>>, fs |-> f]
         ELSE IF "jobs" \notin DOMAIN f.data.doc
         THEN [raised |-> "KeyError", jobs |-> <<>>, fs |-> f]
         ELSE [raised |-> "none", jobs |-> f.data.doc["jobs"], fs |-> NoFile]
    ELSE [raised |-> "none", jobs |-> <<>>, fs |-> f]

\* get_jobs iterating job_dict['jobs'][1:]: the first record is dropped.
get_jobs_skip_first(filename, f) ==
    IF filename # "None" /\ f.exists
    THEN IF f.data.kind # "json"
         THEN [raised |-> "ValueError", jobs |-> <<>>, fs |-> f]
         ELSE IF "jobs" \notin DOMAIN f.data.doc
         THEN [raised |-> "KeyError", jobs |-> <<>>, fs |-> f]
         ELSE [raised |-> "none",
               jobs |-> IF f.data.doc["jobs"] = <<>> THEN <<>>
                        ELSE Tail(f.data.doc["jobs"]),
               fs |-> NoFile]
    ELSE [raised |-> "none", jobs |-> <<>>, fs |-> f]

\* get_jobs(job_filename) on file system f: what it returns or raises, and
\* the file system it leaves.
get_jobs(filename, f) ==
    IF filename # "None" /\ f.exists
    THEN IF f.data.kind # "json"
         THEN [raised |-> "ValueError", jobs |-> <<>>, fs |-> f]
         ELSE IF "jobs" \notin DOMAIN f.data.doc
         THEN [raised |-> "KeyError", jobs |-> <<>>, fs |-> f]
         ELSE [raised |-> "none",
               jobs |-> AppendAll(<<>>, f.data.doc["jobs"]),
               fs |-> NoFile]
    ELSE [raised |-> "none", jobs |-> <<>>, fs |-> f]

\* -------------------------------------------------------------------- Init
\* main() without the check of lines 167-171: the status-queue name, which
\* the loop never uses, is not required.
RequiredEnv_without_status ==
    {"PROTO_WORK_QUEUE", "PROTO_MESSAGING_SERVICE_CONNECTION_STRING"}

\* Lines 126-130, 161-171: the environment variables main() insists on.
RequiredEnv == {"PROTO_WORK_QUEUE", "PROTO_STATUS_QUEUE",
                "PROTO_MESSAGING_SERVICE_CONNECTION_STRING"}

Init ==
    /\ pc = "start"
    /\ exc = "none"
    /\ env \in SUBSET RequiredEnv
    /\ job_filename \in {"None", "jobs.json"}
    /\ fs \in FileSystems
    /\ connection = Unbound
    /\ channel = Unbound
    /\ jobs = <<>>
    /\ idx = 1
    /\ openConns = {}
    /\ openChans = {}
    /\ queue = <<>>
    /\ log = <<>>
    /\ trace = <<>>
    /\ cycle = 0
    /\ clock = 0
    /\ faults = {}
    /\ cancelledAt = "none"
    /\ triggering = "none"
    /\ file0 = fs

\* ------------------------------------------------------------------- main
\* Lines 161-186: the environment checks, then 'Beginning Processing'.
Startup ==
    /\ pc = "start"
    /\ IF RequiredEnv \subseteq env
       THEN /\ pc' = "connect"
            /\ log' = Append(log, "Beginning Processing")
            /\ UNCHANGED <<exc, faults>>
       ELSE /\ pc' = "crashed"
            /\ exc' = "RuntimeError"
            /\ faults' = faults \cup {"RuntimeError"}
            /\ UNCHANGED log
    /\ UNCHANGED <<env, job_filename, fs, connection, channel, jobs, idx,
                   openConns, openChans, queue, trace, cycle, clock,
                   cancelledAt, triggering, file0>>

Call(op, c, obj, i) == [op |-> op, cycle |-> c, obj |-> obj, idx |-> i]

NoteFault(o) ==
    /\ faults' = faults \cup {o}
    /\ cancelledAt' = IF o = "KeyboardInterrupt" /\ cancelledAt = "none"
                      THEN pc ELSE cancelledAt

NoFault == UNCHANGED <<faults, cancelledAt>>

\* The for loop of line 201 inside a try of its own that swallows what
\* basic_publish raises: control stays in the loop.
FinallyOf_swallowing(p) ==
    IF p = "connect" THEN "connclose"
    ELSE IF p = "publish" THEN "publish" ELSE "chclose"

\* The loop with the outer try only: an exception in the body goes
\* straight to the connection close.
FinallyOf_outer_only(p) == "connclose"

\* queue_declare inside a try of its own whose handler passes: a failed
\* declare is followed by the load of line 200.
FinallyOf_declare_ignored(p) ==
    IF p = "connect" THEN "connclose"
    ELSE IF p = "declare" THEN "load" ELSE "chclose"

\* Lines 190, 194, 214, 221: the finally block that runs first when the
\* statement at position p raises: the connect of line 192 is inside the
\* outer try only, lines 196-212 are inside the inner try.
FinallyOf(p) == IF p = "connect" THEN "connclose" ELSE "chclose"

\* The statement at pc, in the body of the cycle, raises o.
Raise(o) ==
    /\ exc' = o
    /\ triggering' = o
    /\ pc' = FinallyOf(pc)
    /\ NoteFault(o)

\* What a pika call that raised o leaves of the objects it was made on: a
\* closed channel for ChannelClosed, a closed connection (and with it its
\* channel) for ConnectionClosed.
ConnsAfter(o, c) == IF o = "ConnectionClosed" THEN openConns \ {c} ELSE openConns
ChansAfter(o, c) ==
    IF o \in {"ChannelClosed", "ConnectionClosed"} THEN openChans \ {c} ELSE openChans

\* Line 192: connection = pika.BlockingConnection(connection_parms)
Connect ==
    /\ pc = "connect"
    /\ cycle < MaxCycles
    /\ cycle' = cycle + 1
    /\ \E o \in {"ok", "AMQPConnectionError", "KeyboardInterrupt"} :
        IF o = "ok"
        THEN /\ connection' = cycle + 1
             /\ openConns' = openConns \cup {cycle + 1}
             /\ trace' = Append(trace, Call("connect", cycle + 1, cycle + 1, 0))
             /\ pc' = "channel"
             /\ NoFault
             /\ UNCHANGED <<exc, triggering>>
        ELSE /\ trace' = Append(trace, Call("connect", cycle + 1, Unbound, 0))
             /\ Raise(o)
             /\ UNCHANGED <<connection, openConns>>
    /\ UNCHANGED <<env, job_filename, fs, channel, jobs, idx, openChans,
                   queue, log, clock, file0>>

\* The inner try without line 198: the channel is opened and the batch is
\* loaded and published with no queue_declare.
OpenChannel_no_declare ==
    /\ pc = "channel"
    /\ \E o \in {"ok", "ConnectionClosed", "KeyboardInterrupt"} :
        IF o = "ok"
        THEN /\ channel' = cycle
             /\ openChans' = openChans \cup {cycle}
             /\ trace' = Append(trace, Call("channel", cycle, cycle, 0))
             /\ pc' = "load"
             /\ NoFault
             /\ UNCHANGED <<exc, triggering, openConns>>
        ELSE /\ trace' = Append(trace, Call("channel", cycle, Unbound, 0))
             /\ openConns' = ConnsAfter(o, connection)
             /\ Raise(o)
             /\ UNCHANGED <<channel, openChans>>
    /\ UNCHANGED <<env, job_filename, fs, connection, jobs, idx, queue, log,
                   cycle, clock, file0>>

\* Line 196: channel = connection.channel()
OpenChannel ==
    /\ pc = "channel"
    /\ \E o \in {"ok", "ConnectionClosed", "KeyboardInterrupt"} :
        IF o = "ok"
        THEN /\ channel' = cycle
             /\ openChans' = openChans \cup {cycle}
             /\ trace' = Append(trace, Call("channel", cycle, cycle, 0))
             /\ pc' = "declare"
             /\ NoFault
             /\ UNCHANGED <<exc, triggering, openConns>>
        ELSE /\ trace' = Append(trace, Call("channel", cycle, Unbound, 0))
             /\ openConns' = ConnsAfter(o, connection)
             /\ Raise(o)
             /\ UNCHANGED <<channel, openChans>>
    /\ UNCHANGED <<env, job_filename, fs, connection, jobs, idx, queue, log,
                   cycle, clock, file0>>

\* Line 198: channel.queue_declare(queue=WORK_QUEUE, durable=True)
QueueDeclare ==
    /\ pc = "declare"
    /\ trace' = Append(trace, Call("declare", cycle, channel, 0))
    /\ \E o \in {"ok", "ChannelClosed", "ConnectionClosed", "KeyboardInterrupt"} :
        IF o = "ok"
        THEN /\ pc' = "load"
             /\ NoFault
             /\ UNCHANGED <<exc, triggering, openConns, openChans>>
        ELSE /\ openConns' = ConnsAfter(o, connection)
             /\ openChans' = ChansAfter(o, channel)
             /\ Raise(o)
    /\ UNCHANGED <<env, job_filename, fs, connection, channel, jobs, idx,
                   queue, log, cycle, clock, file0>>

\* Line 200: jobs = get_jobs(args.job_filename).  A KeyboardInterrupt inside
\* get_jobs arrives before or after os.unlink.
LoadJobs ==
    /\ pc = "load"
    /\ LET r == get_jobs(job_filename, fs)
       IN \/ /\ r.raised = "none"
             /\ jobs' = r.jobs
             /\ fs' = r.fs
             /\ pc' = IF r.jobs = <<>> THEN "chclose" ELSE "publish"
             /\ NoFault
             /\ UNCHANGED <<exc, triggering>>
          \/ /\ r.raised # "none"
             /\ fs' = r.fs
             /\ Raise(r.raised)
             /\ UNCHANGED jobs
          \/ /\ fs' \in {fs, r.fs}
             /\ Raise("KeyboardInterrupt")
             /\ UNCHANGED jobs
    /\ idx' = 1
    /\ UNCHANGED <<env, job_filename, connection, channel, openConns,
                   openChans, queue, log, trace, cycle, clock, file0>>

\* The two prints of lines 209 and 212 with the same text: a returned
\* message is reported as queued.
ResultLine_always_queued(returned, message_json) ==
    "Queued Message = " \o message_json

\* Lines 204-212: the line printed for the result of basic_publish: True
\* (the broker routed the message) or False (the broker returned it).
ResultLine(returned, message_json) ==
    IF returned THEN "Queued Message = " \o message_json
    ELSE "Returned Message = " \o message_json

\* Lines 201-212: one turn of the for loop: json.dumps, basic_publish with
\* mandatory=True, and the print of its result.  A KeyboardInterrupt inside
\* basic_publish arrives before or after the broker took the message.
Publish ==
    /\ pc = "publish"
    /\ idx <= Len(jobs)
    /\ LET message_json == dumps(jobs[idx])
       IN /\ trace' = Append(trace, Call("publish", cycle, channel, idx))
          /\ \E o \in {"Accepted", "Rejected", "ChannelClosed",
                       "ConnectionClosed", "KeyboardInterrupt"} :
              \/ /\ o = "Accepted"
                 /\ queue' = Append(queue, message_json)
                 /\ log' = Append(log, ResultLine(TRUE, message_json))
                 /\ idx' = idx + 1
                 /\ pc' = IF idx = Len(jobs) THEN "chclose" ELSE "publish"
                 /\ NoFault
                 /\ UNCHANGED <<exc, triggering, openConns, openChans>>
              \/ /\ o = "Rejected"
                 /\ log' = Append(log, ResultLine(FALSE, message_json))
                 /\ idx' = idx + 1
                 /\ pc' = IF idx = Len(jobs) THEN "chclose" ELSE "publish"
                 /\ faults' = faults \cup {o}
                 /\ UNCHANGED <<exc, triggering, openConns, openChans, queue,
                                cancelledAt>>
              \/ /\ o \in {"ChannelClosed", "ConnectionClosed"}
                 /\ openConns' = ConnsAfter(o, connection)
                 /\ openChans' = ChansAfter(o, channel)
                 /\ Raise(o)
                 /\ UNCHANGED <<queue, log, idx>>
              \/ /\ o = "KeyboardInterrupt"
                 /\ queue' \in {queue, Append(queue, message_json)}
                 /\ Raise(o)
                 /\ UNCHANGED <<log, idx, openConns, openChans>>
    /\ UNCHANGED <<env, job_filename, fs, connection, channel, jobs, cycle,
                   clock, file0>>

\* Lines 188, 230-233: an exception that leaves the while loop.  Only
\* KeyboardInterrupt has a handler; the handler passes and main() logs
\* 'Terminated Processing'.  Any other exception leaves main().
Leave(e) ==
    IF e = "KeyboardInterrupt"
    THEN /\ pc' = "done"
         /\ exc' = "none"
         /\ log' = Append(log, "Terminated Processing")
    ELSE /\ pc' = "crashed"
         /\ exc' = e
         /\ UNCHANGED log

\* What channel.close() can do: raise UnboundLocalError when the name was
\* never assigned; otherwise return, or raise ChannelClosed (the class the
\* code catches), or, on an open channel, ConnectionClosed when the
\* connection was lost.
ChannelCloseOutcomes ==
    IF channel = Unbound THEN {"UnboundLocalError", "KeyboardInterrupt"}
    ELSE IF channel \in openChans
    THEN {"ok", "ChannelClosed", "ConnectionClosed", "KeyboardInterrupt"}
    ELSE {"ok", "ChannelClosed", "KeyboardInterrupt"}

\* Lines 214-219: finally: try: channel.close() except ChannelClosed: pass
CloseChannel ==
    /\ pc = "chclose"
    /\ \E o \in ChannelCloseOutcomes :
        /\ trace' = IF channel = Unbound THEN trace
                    ELSE Append(trace, Call("chclose", cycle, channel, 0))
        /\ \/ /\ o \in {"ok", "ChannelClosed"}
              /\ openChans' = openChans \ {channel}
              /\ UNCHANGED <<exc, openConns>>
              /\ IF o = "ok" THEN NoFault ELSE NoteFault(o)
           \/ /\ o = "ConnectionClosed"
              /\ openChans' = openChans \ {channel}
              /\ openConns' = openConns \ {connection}
              /\ exc' = o
              /\ NoteFault(o)
           \/ /\ o = "UnboundLocalError"
              /\ exc' = o
              /\ NoteFault(o)
              /\ UNCHANGED <<openConns, openChans>>
           \/ /\ o = "KeyboardInterrupt"
              /\ openChans' \in {openChans, openChans \ {channel}}
              /\ exc' = o
              /\ NoteFault(o)
              /\ UNCHANGED openConns
    /\ pc' = "connclose"
    /\ UNCHANGED <<env, job_filename, fs, connection, channel, jobs, idx,
                   queue, log, cycle, clock, file0, triggering>>

\* What connection.close() can do: raise UnboundLocalError when the name was
\* never assigned; otherwise return or raise ConnectionClosed (the class the
\* code catches).
ConnectionCloseOutcomes ==
    IF connection = Unbound THEN {"UnboundLocalError", "KeyboardInterrupt"}
    ELSE {"ok", "ConnectionClosed", "KeyboardInterrupt"}

\* A closed connection has no open channel: closing connection c closes the
\* channel opened on it (channel c).
\* Lines 221-226: finally: try: connection.close() except ConnectionClosed: pass
\* followed by the end of the try statement of line 190.
CloseConnection ==
    /\ pc = "connclose"
    /\ \E o \in ConnectionCloseOutcomes :
        /\ trace' = IF connection = Unbound THEN trace
                    ELSE Append(trace, Call("connclose", cycle, connection, 0))
        /\ \/ /\ o \in {"ok", "ConnectionClosed"}
              /\ openConns' = openConns \ {connection}
              /\ openChans' = openChans \ {connection}
              /\ IF o = "ok" THEN NoFault ELSE NoteFault(o)
              /\ IF exc = "none"
                 THEN pc' = "sleep" /\ UNCHANGED <<exc, log>>
                 ELSE Leave(exc)
           \/ /\ o = "UnboundLocalError"
              /\ NoteFault(o)
              /\ Leave(o)
              /\ UNCHANGED <<openConns, openChans>>
           \/ /\ o = "KeyboardInterrupt"
              /\ \E closed \in BOOLEAN :
                    /\ openConns' = IF closed THEN openConns \ {connection} ELSE openConns
                    /\ openChans' = IF closed THEN openChans \ {connection} ELSE openChans
              /\ NoteFault(o)
              /\ Leave(o)
    /\ UNCHANGED <<env, job_filename, fs, connection, channel, jobs, idx,
                   queue, cycle, clock, file0, triggering>>

\* Line 228: sleep(60)
Sleep ==
    /\ pc = "sleep"
    /\ trace' = Append(trace, Call("sleep", cycle, Unbound, 0))
    /\ \/ /\ clock' = clock + SleepSeconds
          /\ pc' = "connect"
          /\ NoFault
          /\ UNCHANGED <<exc, log>>
       \/ /\ NoteFault("KeyboardInterrupt")
          /\ Leave("KeyboardInterrupt")
          /\ UNCHANGED clock
    /\ UNCHANGED <<env, job_filename, fs, connection, channel, jobs, idx,
                   openConns, openChans, queue, cycle, file0, triggering>>

Next ==
    \/ Startup
    \/ Connect
    \/ OpenChannel
    \/ QueueDeclare
    \/ LoadJobs
    \/ Publish
    \/ CloseChannel
    \/ CloseConnection
    \/ Sleep

Spec == Init /\ [][Next]_vars

TypeOK ==
    /\ pc \in {"start", "connect", "channel", "declare", "load", "publish",
               "chclose", "connclose", "sleep", "done", "crashed"}
    /\ connection \in {Unbound} \cup ConnIds
    /\ channel \in {Unbound} \cup ConnIds
    /\ openConns \subseteq ConnIds
    /\ openChans \subseteq ConnIds
    /\ cycle \in 0 .. MaxCycles
    /\ idx \in 1 .. MaxJobs + 1

\* ================================================================ claims
BrokerErrors == {"AMQPConnectionError", "ConnectionClosed", "ChannelClosed"}
ParseErrors == {"ValueError", "KeyError"}

\* The process got past the environment checks and entered the loop.
InLoop == pc \notin {"start"} /\ RequiredEnv \subseteq env

\* The publish calls made so far, in order.
PublishCalls == SelectSeq(trace, LAMBDA c : c.op = "publish")

\* The job file named on the command line held a well-formed document when
\* the process started.
WellFormed(f) ==
    /\ f.exists
    /\ f.data.kind = "json"
    /\ "jobs" \in DOMAIN f.data.doc

\* C1: a connection, channel, declare or publish failure never makes the
\* loop exit: the process never leaves main() in a cycle whose body raised
\* one of the broker's errors.
C1_LoopSurvivesBrokerFailure ==
    pc = "crashed" => triggering \notin BrokerErrors

\* C2: whenever the loop is waiting between cycles or has terminated, no
\* connection and no channel is open.
C2_ReleasedBetweenCycles ==
    pc \in {"sleep", "connect", "done", "crashed"}
        => openConns = {} /\ openChans = {}

\* C3: the error that leaves a cycle is the error the body raised; an error
\* raised while closing the channel or the connection never leaves the
\* cycle in its place or on its own.
C3_CleanupNeverMasks ==
    (pc = "crashed" /\ InLoop /\ "KeyboardInterrupt" \notin faults)
        => (triggering # "none" /\ exc = triggering)

\* The body the spec's end-to-end example gives for a job record.
ExpectedBody(job) ==
    CASE job.id = 1 -> "{\"id\": 1}"
      [] job.id = 2 -> "{\"id\": 2}"
      [] OTHER -> "{\"id\": " \o ToString(job.id) \o "}"

ExpectedQueue ==
    [i \in 1 .. Len(file0.data.doc["jobs"]) |-> ExpectedBody(file0.data.doc["jobs"][i])]

\* C4: with a reachable broker (no failure, rejection or interrupt so far)
\* and a well-formed job file, at the end of the first cycle and of every
\* later one the work queue holds exactly one message per job of the file,
\* in file order, and the job file is gone.
C4_EndToEnd ==
    (/\ faults = {}
     /\ job_filename # "None"
     /\ WellFormed(file0)
     /\ cycle >= 1
     /\ pc \in {"sleep", "connect"})
        => (queue = ExpectedQueue /\ ~fs.exists)

\* A second cycle ended with both jobs of a two-job file in the queue.
C4_Witness ==
    /\ faults = {}
    /\ job_filename # "None"
    /\ WellFormed(file0)
    /\ cycle >= 2
    /\ pc = "sleep"
    /\ Len(queue) = 2
    /\ queue[1] # queue[2]

\* C5: when get_jobs returns from a well-formed job file, the batch it
\* returned is the file's records in file order and the file is gone.
C5_LoadReturnsRecordsInOrder ==
    [][(/\ pc = "load"
        /\ pc' \in {"publish", "chclose"}
        /\ exc' = "none"
        /\ job_filename # "None"
        /\ WellFormed(fs))
            => (jobs' = fs.data.doc["jobs"] /\ ~fs'.exists)]_vars

\* get_jobs returned two different records and the file is gone.
C5_Witness ==
    /\ pc = "publish"
    /\ idx = 1
    /\ Len(jobs) >= 2
    /\ jobs[1] # jobs[2]
    /\ ~fs.exists

\* C6 (as stated): when get_jobs raises because the file cannot be parsed,
\* the job file has already been deleted.
C6_FileDeletedBeforeParseError ==
    (pc = "chclose" /\ triggering \in ParseErrors) => ~fs.exists

\* C6 (amended): when the job file exists but cannot be parsed, get_jobs
\* raises, the error propagates into the finally blocks and out of the
\* cycle, and the job file has not been deleted: it is still there with the
\* content it had.
C6_ParseErrorLeavesFile ==
    [][(pc = "load" /\ job_filename # "None" /\ fs.exists /\ ~WellFormed(fs))
            => (/\ pc' = "chclose"
                /\ exc' \in ParseErrors \cup {"KeyboardInterrupt"}
                /\ fs' = fs)]_vars
    /\ [](triggering \in ParseErrors
            => (/\ fs = file0
                /\ fs.exists
                /\ pc \in {"chclose", "connclose", "crashed", "done"}
                /\ (pc = "crashed" => exc # "none")))

\* get_jobs raised on unparsable content and the file is still there.
C6_Witness ==
    /\ pc = "chclose"
    /\ exc = "ValueError"
    /\ triggering = "ValueError"
    /\ fs.exists
    /\ fs.data.kind = "garbage"

\* C7: the process terminates abnormally only for a missing configuration
\* value.
C7_OnlyConfigurationErrorIsFatal ==
    pc = "crashed" => exc = "RuntimeError"

\* C8: once a KeyboardInterrupt has been raised in the loop, the process
\* does not terminate abnormally, and when it has terminated it logged
\* 'Terminated Processing' exactly once.
C8_CancellationTerminatesOrderly ==
    cancelledAt # "none"
        => (/\ pc # "crashed"
            /\ (pc = "done" =>
                    Len(SelectSeq(log, LAMBDA l : l = "Terminated Processing")) = 1))

\* C9 (as stated): when the interrupt arrived during a publish, every job of
\* the loaded batch has been handed to the broker by the time the loop has
\* terminated.
C9_InterruptedBatchStillPublished ==
    (pc = "done" /\ cancelledAt = "publish") => Len(PublishCalls) = Len(jobs)

\* C9 (amended): an interrupt that arrives during a publish aborts the cycle
\* there: the jobs after the one being published are never handed to the
\* broker, and control is in the finally blocks or out of the loop.
C9_InterruptAbortsBatch ==
    cancelledAt = "publish"
        => (/\ pc \in {"chclose", "connclose", "done", "crashed"}
            /\ Len(PublishCalls) = idx
            /\ \A k \in 1 .. Len(PublishCalls) : PublishCalls[k].idx = k)

\* The loop terminated on an interrupt raised while the first of two jobs
\* was being published.
C9_Witness ==
    /\ pc = "done"
    /\ cancelledAt = "publish"
    /\ idx = 1
    /\ Len(jobs) >= 2

\* C10: a publish the broker returned (Rejected) leaves no exception, the
\* for loop goes on to the next job or ends, no job is handed to the broker
\* twice in any cycle, and rejections alone never end the loop.
C10_RejectedIsTerminalForJob ==
    [][(/\ pc = "publish"
        /\ log' = Append(log, "Returned Message = " \o dumps(jobs[idx])))
            => (/\ exc' = "none"
                /\ idx' = idx + 1
                /\ queue' = queue
                /\ pc' = IF idx < Len(jobs) THEN "publish" ELSE "chclose")]_vars
    /\ [](\A i, j \in 1 .. Len(PublishCalls) :
            i # j => PublishCalls[i].idx # PublishCalls[j].idx)
    /\ []((InLoop /\ faults \subseteq {"Rejected"}) => pc \notin {"crashed", "done"})

\* The first job was returned, the second was queued, and a later cycle has
\* ended.
C10_Witness ==
    /\ pc = "sleep"
    /\ cycle >= 2
    /\ faults = {"Rejected"}
    /\ Len(log) >= 3
    /\ log[2] = "Returned Message = {\"id\": 1}"
    /\ log[3] = "Queued Message = {\"id\": 2}"
    /\ Len(PublishCalls) = 2

\* A publish of the current cycle raised: the call for job idx was made and
\* the for loop was left with that job and the ones after it unpublished.
PublishFailed ==
    /\ triggering # "none"
    /\ \E k \in 1 .. Len(trace) :
        /\ trace[k].op = "publish"
        /\ trace[k].cycle = cycle
        /\ trace[k].idx = idx

\* C11: once a batch was loaded and a publish of that cycle failed, the job
\* file stays deleted, the batch is not reloaded, no further publish call is
\* ever made, and no job after the failed one was ever handed to the broker.
C11_UnpublishedJobsAreLost ==
    [][PublishFailed
        => (PublishCalls' = PublishCalls /\ fs' = fs /\ jobs' = jobs)]_vars
    /\ [](PublishFailed
            => (/\ ~fs.exists
                /\ pc \in {"chclose", "connclose", "done", "crashed"}
                /\ \A k \in 1 .. Len(PublishCalls) : PublishCalls[k].idx <= idx))

\* The publish of the first of two jobs raised ConnectionClosed and the
\* process has ended: the second job was never published.
C11_Witness ==
    /\ PublishFailed
    /\ triggering = "ConnectionClosed"
    /\ pc = "crashed"
    /\ idx = 1
    /\ Len(jobs) >= 2
    /\ Len(PublishCalls) = 1
    /\ queue = <<>>

\* C12: when no path was given or the path names no file, get_jobs returns
\* an empty batch, raises nothing and leaves the file system as it was; the
\* for loop is not entered and control goes on to the close blocks with no
\* exception.
C12_MissingFileIsEmptyBatch ==
    [][(/\ pc = "load"
        /\ (job_filename = "None" \/ ~fs.exists)
        /\ "KeyboardInterrupt" \notin faults')
            => (/\ jobs' = <<>>
                /\ fs' = fs
                /\ exc' = "none"
                /\ pc' = "chclose"
                /\ PublishCalls' = PublishCalls
                /\ queue' = queue)]_vars
    /\ []((InLoop /\ faults = {} /\ (job_filename = "None" \/ ~file0.exists))
            => (/\ fs = file0
                /\ queue = <<>>
                /\ PublishCalls = <<>>
                /\ pc \notin {"publish", "crashed", "done"}))

\* No path was given although a job file exists: the first cycle loaded an
\* empty batch, left the file alone and completed.
C12_Witness ==
    /\ pc = "sleep"
    /\ cycle = 1
    /\ faults = {}
    /\ job_filename = "None"
    /\ fs.exists
    /\ jobs = <<>>
    /\ queue = <<>>

\* The success lines a job record can produce.
SuccessLines == {"Queued Message = " \o ExpectedBody(Job(n)) : n \in JobIds}

SuccessEntries == SelectSeq(log, LAMBDA l : l \in SuccessLines)

\* basic_publish returned True in this step: the broker took the message and
\* no exception was raised.
AcceptedStep ==
    /\ pc = "publish"
    /\ exc' = "none"
    /\ queue' = Append(queue, ExpectedBody(jobs[idx]))

\* C13: a publish that returned True adds exactly one success line, naming
\* the serialized job; a success line is added by no other step (not by a
\* returned message, not by a publish that raised); so as long as no
\* publish was interrupted the success lines are the queued bodies, one
\* each, in order.
C13_OneSuccessLinePerAccepted ==
    [][/\ AcceptedStep
            => log' = Append(log, "Queued Message = " \o ExpectedBody(jobs[idx]))
       /\ SuccessEntries' # SuccessEntries => AcceptedStep]_vars
    /\ [](Len(SuccessEntries) <= Len(queue))
    /\ []("KeyboardInterrupt" \notin faults
            => SuccessEntries = [k \in 1 .. Len(queue) |-> "Queued Message = " \o queue[k]])

\* One job was queued, one was returned and the publish of neither raised:
\* one success line.
C13_Witness ==
    /\ pc = "sleep"
    /\ faults = {"Rejected"}
    /\ Len(PublishCalls) = 2
    /\ Len(queue) = 1
    /\ SuccessEntries = <<"Queued Message = {\"id\": 2}">>
    /\ Len(log) = 3

\* C14: every call made on a connection or a channel (declare, publish,
\* close) is made in the cycle that opened that object: the connection and
\* the channel of cycle c are the objects numbered c.
C14_HandleOwnedByItsCycle ==
    \A k \in 1 .. Len(trace) :
        trace[k].op \in {"declare", "publish", "chclose", "connclose"}
            => trace[k].obj = trace[k].cycle

\* The three values main() requires from the environment.
ConfigNames == {"PROTO_WORK_QUEUE", "PROTO_STATUS_QUEUE",
                "PROTO_MESSAGING_SERVICE_CONNECTION_STRING"}

\* C15: when one of the required configuration values is missing, startup
\* fails with RuntimeError and the loop is never entered: nothing is logged,
\* no call is made on the broker and the job file is neither read nor
\* deleted.
C15_MissingConfigurationStopsStartup ==
    ~(ConfigNames \subseteq env)
        => (/\ pc \in {"start", "crashed"}
            /\ (pc = "crashed" => exc = "RuntimeError")
            /\ log = <<>>
            /\ trace = <<>>
            /\ cycle = 0
            /\ jobs = <<>>
            /\ fs = file0)

\* Only the status-queue name is missing, a job file is there, and startup
\* has failed.
C15_Witness ==
    /\ pc = "crashed"
    /\ exc = "RuntimeError"
    /\ env = ConfigNames \ {"PROTO_STATUS_QUEUE"}
    /\ job_filename # "None"
    /\ fs.exists

\* The connect of the current cycle returned a connection.
ConnectionOpenedThisCycle ==
    \E k \in 1 .. Len(trace) :
        trace[k].op = "connect" /\ trace[k].cycle = cycle /\ trace[k].obj = cycle

\* C16: in a cycle that opened a connection, the connection close block is
\* entered only from the channel close block; the channel close block is
\* always followed by the connection close block, whatever channel.close()
\* did; so every call of connection.close() in such a cycle comes after the
\* call of channel.close() on the channel that cycle opened, and such a
\* cycle never ends without the call of connection.close().
C16_ChannelClosedBeforeConnection ==
    [][/\ (pc' = "connclose" /\ pc # "connclose" /\ ConnectionOpenedThisCycle')
            => pc = "chclose"
       /\ pc = "chclose" => pc' = "connclose"]_vars
    /\ [](\A k \in 1 .. Len(trace) :
            (/\ trace[k].op = "connclose"
             /\ \E j \in 1 .. Len(trace) :
                    /\ trace[j].op = "channel"
                    /\ trace[j].cycle = trace[k].cycle
                    /\ trace[j].obj # Unbound)
                => \E j \in 1 .. (k - 1) :
                    /\ trace[j].op = "chclose"
                    /\ trace[j].cycle = trace[k].cycle
                    /\ trace[j].obj = trace[k].cycle)
    /\ []((ConnectionOpenedThisCycle /\ pc \in {"sleep", "done", "crashed"})
            => \E k \in 1 .. Len(trace) :
                /\ trace[k].op = "connclose"
                /\ trace[k].cycle = cycle
                /\ trace[k].obj = cycle)

\* channel.close() raised ConnectionClosed after a body that did not fail,
\* and connection.close() was still called before the process ended.
C16_Witness ==
    /\ pc = "crashed"
    /\ triggering = "none"
    /\ exc = "ConnectionClosed"
    /\ Len(trace) >= 2
    /\ trace[Len(trace)].op = "connclose"
    /\ trace[Len(trace) - 1].op = "chclose"
    /\ trace[Len(trace)].cycle = trace[Len(trace) - 1].cycle

\* C17: while the for loop is publishing, the connection and the channel are
\* the ones the current cycle opened and both are open; every publish call
\* is made on the channel of its own cycle, after the queue_declare of that
\* cycle and before any channel.close() of that cycle.
C17_PublishOnlyOnDeclaredOpenChannel ==
    /\ pc = "publish"
        => (/\ connection = cycle
            /\ channel = cycle
            /\ cycle \in openConns
            /\ cycle \in openChans
            /\ exc = "none")
    /\ \A k \in 1 .. Len(trace) :
        trace[k].op = "publish"
            => (/\ trace[k].obj = trace[k].cycle
                /\ \E j \in 1 .. (k - 1) :
                    /\ trace[j].op = "declare"
                    /\ trace[j].cycle = trace[k].cycle
                    /\ trace[j].obj = trace[k].obj
                /\ \A j \in 1 .. (k - 1) :
                    trace[j].cycle = trace[k].cycle
                        => trace[j].op \notin {"chclose", "connclose"})

\* Two jobs were published in a cycle and its channel has been closed.
C17_Witness ==
    /\ pc = "connclose"
    /\ exc = "none"
    /\ Len(PublishCalls) = 2
    /\ cycle \notin openChans
    /\ trace[Len(trace)].op = "chclose"

\* The last three calls on the broker are the connect, the channel open and
\* the queue_declare of the current cycle, each of which returned.
AcquiredThisCycle ==
    /\ Len(trace) >= 3
    /\ LET n == Len(trace)
       IN /\ trace[n - 2] = Call("connect", cycle, cycle, 0)
          /\ trace[n - 1] = Call("channel", cycle, cycle, 0)
          /\ trace[n] = Call("declare", cycle, cycle, 0)
    /\ exc = "none"
    /\ cycle \in openConns
    /\ cycle \in openChans

\* C18: the job file changes only in the load step, which runs only after
\* the connect, the channel open and the queue_declare of the same cycle
\* have returned; as long as no cycle got that far the job file is as it
\* was when the process started.
C18_FileTouchedOnlyAfterAcquisition ==
    [][fs' # fs => (pc = "load" /\ AcquiredThisCycle)]_vars
    /\ [](pc = "load" => AcquiredThisCycle)
    /\ []((\A k \in 1 .. Len(trace) : trace[k].op # "declare") => fs = file0)

\* The first cycle's channel open failed; the job file, with its two
\* records, is still there when the process ends.
C18_Witness ==
    /\ pc = "crashed"
    /\ cycle = 1
    /\ triggering = "ConnectionClosed"
    /\ trace[Len(trace)].op = "connclose"
    /\ job_filename # "None"
    /\ WellFormed(fs)
    /\ Len(fs.data.doc["jobs"]) >= 2
    /\ fs = file0

\* s can be obtained from t by leaving elements out.
RECURSIVE IsSubsequence(_, _)
IsSubsequence(s, t) ==
    IF s = <<>> THEN TRUE
    ELSE IF t = <<>> THEN FALSE
    ELSE IF Head(s) = Head(t) THEN IsSubsequence(Tail(s), Tail(t))
    ELSE IsSubsequence(s, Tail(t))

\* The records of the job file as it was when the process started.
FileRecords ==
    IF job_filename # "None" /\ WellFormed(file0) THEN file0.data.doc["jobs"] ELSE <<>>

\* C19: the publish calls made so far over the whole run are for the first,
\* second, ... record of the job file, each once and in file order: a prefix
\* of the file's records; and the bodies in the work queue are bodies of
\* those records, in file order.
C19_PublishedIsPrefixOfFile ==
    /\ Len(PublishCalls) <= Len(FileRecords)
    /\ \A k \in 1 .. Len(PublishCalls) : PublishCalls[k].idx = k
    /\ pc = "publish" => (jobs = FileRecords /\ Len(PublishCalls) = idx - 1)
    /\ Len(queue) <= Len(PublishCalls)
    /\ IsSubsequence(queue,
            [k \in 1 .. Len(PublishCalls) |-> ExpectedBody(FileRecords[k])])

\* The first of two different records was returned, the publish of the
\* second was interrupted after the broker took it, and the process ended.
C19_Witness ==
    /\ pc = "done"
    /\ cancelledAt = "publish"
    /\ "Rejected" \in faults
    /\ Len(FileRecords) = 2
    /\ FileRecords[1] # FileRecords[2]
    /\ Len(PublishCalls) = 2
    /\ queue = <<ExpectedBody(FileRecords[2])>>

\* C20: time passes only in the sleep of the loop, 60 units at a time; a
\* connection attempt other than the first is immediately preceded by the
\* sleep that ended the cycle before it, so exactly one wait of 60 units
\* separates any two consecutive connection attempts.
C20_CyclesSeparatedByFixedWait ==
    [][clock' # clock => (pc = "sleep" /\ pc' = "connect" /\ clock' = clock + 60)]_vars
    /\ [](\A k \in 1 .. Len(trace) :
            (trace[k].op = "connect" /\ trace[k].cycle > 1)
                => (/\ trace[k - 1].op = "sleep"
                    /\ trace[k - 1].cycle = trace[k].cycle - 1))
    /\ []((cycle >= 1 /\ pc \notin {"connect", "done"}) => clock = 60 * (cycle - 1))
    /\ [](pc = "connect" => clock = 60 * cycle)

\* The third connection attempt is under way, 120 units after the first.
C20_Witness ==
    /\ pc = "channel"
    /\ cycle = 3
    /\ clock = 120
    /\ Len(SelectSeq(trace, LAMBDA c : c.op = "sleep")) = 2

====
